---- MODULE Spec2Model ----
(***************************************************************************)
(* Ingestion, rate governance, token verification, alert rules and alert   *)
(* lifecycle of the IoT tracking server (Express + Mongoose).              *)
(*                                                                         *)
(* Time is in whole seconds (Date.now() / 1000).  Battery voltage is in    *)
(* tenths of a volt, so 31 stands for 3.1 V; quantities compared with a    *)
(* voltage are scaled by VoltScale.  An optional integer field that is     *)
(* undefined in the JavaScript object holds Absent; an undefined           *)
(* temperature holds NoTemp (outside the range Joi lets through).          *)
(***************************************************************************)
EXTENDS Integers, Sequences, FiniteSets, TLC

\* ---------------------------------------------------------------- bounds
T0 == 1000
MaxElapsed == 120
MaxTokenReqs == 2
MaxRateSamples == 1
MaxCommandReqs == 8
MaxSamples == 3
MaxAlerts == 3
MaxAlertReqs == 2
MaxAlertElapsed == 1860
MaxShortElapsed == 300
MaxSuppressReqs == 3
MaxSuppressElapsed == 2400
MaxLifeReqs == 6
MaxLifeElapsed == 60
MaxShapeReqs == 2
MaxShapeSamples == 2
MaxConcReqs == 3
MaxConcElapsed == 120
MaxAccessReqs == 3
MaxFaultReqs == 2
MaxErrReqs == 4
MaxRaceReqs == 4
MaxRaceElapsed == 60
MaxDedupReqs == 3
MaxDedupAlerts == 4
MaxWriteReqs == 3

\* ------------------------------------------------------ program constants
DeviceWindow == 60
DeviceMax == 60
AlertWindow == 60
AlertMax == 10
GeneralWindow == 900
GeneralMax == 100
StrictWindow == 60
StrictMax == 5
MaxAge == 300
LowBatteryDedup == 1800
TemperatureDedup == 900
DefaultBatteryThreshold == 20
CriticalVoltage == 10
TempLow == -10
TempHigh == 60
TempCriticalMargin == 20
VoltScale == 10
PctScale == 3
Absent == -1
NoTemp == 999
NoId == ""

DeviceIds == {"DEV1", "DEV2"}
Ips == {"ip1"}
ApiKeys == {"none", "invalid", "standard", "master"}
Limiters == {"general", "device", "alert", "strict"}
AlertTypes == {"vibration", "tampering", "low_battery", "geofence", "offline", "temperature", "custom"}

VARIABLES now, rl, devices, samples, alerts, last, pending

vars == <<now, rl, devices, samples, alerts, last, pending>>

\* --------------------------------------------------------------- helpers
Has(x) == x # Absent

Keys == ({"device"} \X DeviceIds) \cup ({"ip", "addr"} \X Ips)

NoClient == [totalHits |-> 0, resetTime |-> 0]

WindowOf(l) ==
  CASE l = "general" -> GeneralWindow
    [] l = "device" -> DeviceWindow
    [] l = "alert" -> AlertWindow
    [] l = "strict" -> StrictWindow

\* the acknowledge/resolve routes wired to the catch-all limit
MaxOf_StrictAsGeneral(l) ==
  CASE l = "general" -> GeneralMax
    [] l = "device" -> DeviceMax
    [] l = "alert" -> AlertMax
    [] l = "strict" -> GeneralMax

MaxOf(l) ==
  CASE l = "general" -> GeneralMax
    [] l = "device" -> DeviceMax
    [] l = "alert" -> AlertMax
    [] l = "strict" -> StrictMax

\* createRateLimiter: message.retryAfter = Math.ceil(windowMs / 1000)
RetryAfterOf(l) == WindowOf(l)

\* MemoryStore.increment of express-rate-limit 7: a client whose window has
\* elapsed (or that does not exist) restarts at zero with a fresh window.
Increment(store, l, key, t) ==
  LET c == store[l][key]
      cur == IF c.resetTime <= t
             THEN [totalHits |-> 0, resetTime |-> t + WindowOf(l)]
             ELSE c
  IN [store EXCEPT ![l][key] = [cur EXCEPT !.totalHits = @ + 1]]

\* MemoryStore.decrement (skipFailedRequests of alertRateLimit)
Decrement(store, l, key) ==
  [store EXCEPT ![l][key].totalHits = IF @ > 0 THEN @ - 1 ELSE 0]

\* the limiter rejects when totalHits > max
Exceeded(store, l, key) == store[l][key].totalHits > MaxOf(l)

\* keyGenerator of createRateLimiter: req.body?.deviceId, else the caller IP.
\* It runs before decodeJwtPayload, so the body is the one the caller sent:
\* a {token: ...} wrapper has no deviceId of its own.
BodyDeviceId(req) == IF req.body = "plain" THEN req.payload.deviceId ELSE NoId

KeyGenerator(req) ==
  IF BodyDeviceId(req) # NoId THEN <<"device", BodyDeviceId(req)>>
  ELSE <<"ip", req.ip>>

\* keyGenerator override of generalRateLimit and strictRateLimit: req.ip
IpKey(req) == <<"addr", req.ip>>

\* ------------------------------------------------------ token verification
\* jwt.verify without the maxAge option: only the token's own exp bounds it
VerifyToken_NoMaxAge(tok, t) ==
  IF tok.form # "ok" THEN "JsonWebTokenError"
  ELSE IF ~tok.sig THEN "JsonWebTokenError"
  ELSE IF Has(tok.nbf) /\ tok.nbf > t THEN "NotBeforeError"
  ELSE IF Has(tok.exp) /\ t >= tok.exp THEN "TokenExpiredError"
  ELSE "ok"

\* jwt.verify(token, secret, {algorithms: ['HS256'], maxAge: '5m'}) of
\* jsonwebtoken 9: the checks in the library's order.
VerifyToken(tok, t) ==
  IF tok.form # "ok" THEN "JsonWebTokenError"
  ELSE IF ~tok.sig THEN "JsonWebTokenError"
  ELSE IF Has(tok.nbf) /\ tok.nbf > t THEN "NotBeforeError"
  ELSE IF Has(tok.exp) /\ t >= tok.exp THEN "TokenExpiredError"
  ELSE IF ~Has(tok.iat) THEN "JsonWebTokenError"
  ELSE IF t >= tok.iat + MaxAge THEN "TokenExpiredError"
  ELSE "ok"

\* decodeJwtPayload answering every JsonWebTokenError as the global error
\* handler would: 401 "Invalid token"
DecodeJwtPayload_Sig401(req, t) ==
  IF req.body = "plain" THEN <<0, "skipped">>
  ELSE LET v == VerifyToken(req.tok, t) IN
    CASE v = "ok" -> <<0, "decoded">>
      [] v = "JsonWebTokenError" -> <<401, "Invalid token">>
      [] v = "TokenExpiredError" -> <<401, "JWT token has expired">>
      [] v = "NotBeforeError" -> <<401, "JWT token not yet valid">>

\* decodeJwtPayload: the outcome of the middleware as <<status, reason>>;
\* status 0 means next() was called.
DecodeJwtPayload(req, t) ==
  IF req.body = "plain" THEN <<0, "skipped">>
  ELSE LET v == VerifyToken(req.tok, t) IN
    CASE v = "ok" -> <<0, "decoded">>
      [] v = "JsonWebTokenError" -> <<400, "Invalid JWT token format">>
      [] v = "TokenExpiredError" -> <<401, "JWT token has expired">>
      [] v = "NotBeforeError" -> <<401, "JWT token not yet valid">>

\* ------------------------------------------------------------- middleware
\* authenticateApiKey: <<status, reason>>, status 0 = next()
AuthenticateApiKey(req) ==
  CASE req.apiKey = "none" -> <<401, "API key required">>
    [] req.apiKey = "invalid" -> <<401, "Invalid API key">>
    [] OTHER -> <<0, "ok">>

\* locationDataSchema (Joi) with latitude and longitude optional
LocationDataErrors_PositionOptional(p) ==
  (IF p.deviceId = NoId THEN {"deviceId"} ELSE {})
  \cup (IF ~Has(p.batteryVoltage) \/ p.batteryVoltage > 50 * VoltScale
        THEN {"batteryVoltage"} ELSE {})

\* locationDataSchema (Joi): the names of the fields that fail
LocationDataErrors(p) ==
  (IF p.deviceId = NoId THEN {"deviceId"} ELSE {})
  \cup (IF ~p.hasPos THEN {"latitude", "longitude"} ELSE {})
  \cup (IF ~Has(p.batteryVoltage) \/ p.batteryVoltage > 50 * VoltScale
        THEN {"batteryVoltage"} ELSE {})
  \cup (IF p.temperature # NoTemp /\ (p.temperature < -50 \/ p.temperature > 100)
        THEN {"temperature"} ELSE {})
  \cup (IF Has(p.batteryPercentage) /\ p.batteryPercentage > 100
        THEN {"batteryPercentage"} ELSE {})

\* req.user?.deviceId || req.device?.deviceId: nothing in the chain of these
\* routes sets req.user or req.device, so the value is undefined whatever
\* identity the caller's API key was issued for (req.credentialDevice)
AuthenticatedDeviceId(req) == NoId

\* validateDeviceAccess: <<status, reason>>, status 0 = next().  The
\* violation is answered with unauthorizedResponse (401).
ValidateDeviceAccess(req) ==
  IF req.payload.deviceId = NoId THEN <<0, "ok">>
  ELSE IF req.apiKey = "master" THEN <<0, "ok">>
  ELSE IF AuthenticatedDeviceId(req) # NoId
          /\ req.payload.deviceId # AuthenticatedDeviceId(req)
    THEN <<401, "Access denied: Device can only access its own data">>
  ELSE <<0, "ok">>

\* ---------------------------------------------------------------- store
\* docs: the number of documents of the collection with this deviceId
NoDevice == [exists |-> FALSE, lastSeen |-> 0, batteryThreshold |-> 0,
             lowBatteryEnabled |-> FALSE, docs |-> 0]

\* Device.findOneAndUpdate({deviceId}, {lastSeen, $setOnInsert}, {upsert})
UpsertLastSeen(devs, id, t) ==
  IF devs[id].exists
  THEN [devs EXCEPT ![id].lastSeen = t]
  ELSE [devs EXCEPT ![id] = [exists |-> TRUE, lastSeen |-> t,
                             batteryThreshold |-> DefaultBatteryThreshold,
                             lowBatteryEnabled |-> TRUE, docs |-> 1]]

\* the write of the upsert in a collection without the unique index on
\* deviceId: a command that matched no document inserts one
UpsertWrite_NoUniqueIndex(devs, id, t, matched) ==
  IF matched
  THEN [devs EXCEPT ![id].lastSeen = t]
  ELSE [devs EXCEPT ![id] = [exists |-> TRUE, lastSeen |-> t,
                             batteryThreshold |-> DefaultBatteryThreshold,
                             lowBatteryEnabled |-> TRUE, docs |-> @.docs + 1]]

\* the write of the upsert, which matched a document or not when it read the
\* collection.  deviceId is unique: an insert that meets a document written
\* in between is refused, and the command applies as an update.
UpsertWrite(devs, id, t, matched) ==
  IF matched \/ devs[id].exists
  THEN [devs EXCEPT ![id].lastSeen = t]
  ELSE UpsertLastSeen(devs, id, t)

NewAlert(id, type, sev, t) ==
  [deviceId |-> id, alertType |-> type, severity |-> sev, timestamp |-> t,
   isResolved |-> FALSE, resolvedAt |-> Absent, acknowledgedAt |-> Absent,
   deletedAt |-> Absent]

\* alert.save() of a document loaded from the store: alertSchema is strict and
\* has no deletedAt path, so a value assigned to doc.deletedAt is not written
StrictSave(stored, doc) == [doc EXCEPT !.deletedAt = stored.deletedAt]

\* an :alertId that is not an ObjectId: Alert.findById rejects with a
\* CastError on _id, which errorHandler answers 400 'Invalid ID format'
MalformedId == Absent

\* Alert.findById(alertId) found nothing the handlers accept:
\* if (!alert || alert.deletedAt) throw notFoundError('Alert')
NotFound(as, id) == id \notin 1..Len(as) \/ as[id].deletedAt # Absent

\* getAlerts and getAlertStats: the alerts matching {deletedAt: null}
ListedAlerts(as) == {i \in 1..Len(as) : as[i].deletedAt = Absent}

\* getAlertById: the status of the answer
GetAlertById(as, id) == IF NotFound(as, id) THEN 404 ELSE 200

\* getAlertStats: the $match stage, {deletedAt: null} with the optional
\* deviceId and timestamp.$gte / timestamp.$lte filters (NoId and Absent
\* stand for a filter the query string leaves out)
StatsMatch(as, deviceId, startDate, endDate) ==
  {i \in ListedAlerts(as) :
     /\ deviceId = NoId \/ as[i].deviceId = deviceId
     /\ startDate = Absent \/ as[i].timestamp >= startDate
     /\ endDate = Absent \/ as[i].timestamp <= endDate}

\* getAlertStats: the $group stage over the matched alerts
\*   total: {$sum: 1}
\*   resolved: {$sum: {$cond: ['$isResolved', 1, 0]}}
\*   acknowledged: {$sum: {$cond: ['$acknowledgedAt', 1, 0]}}
\*   open: {$sum: {$cond: [{$and: [{$not: '$isResolved'},
\*                                 {$not: '$acknowledgedAt'}]}, 1, 0]}}
GetAlertStats(as, deviceId, startDate, endDate) ==
  LET m == StatsMatch(as, deviceId, startDate, endDate)
  IN [total |-> Cardinality(m),
      resolved |-> Cardinality({i \in m : as[i].isResolved}),
      acknowledged |-> Cardinality({i \in m : as[i].acknowledgedAt # Absent}),
      open |-> Cardinality({i \in m : ~as[i].isResolved
                                      /\ as[i].acknowledgedAt = Absent})]

\* the dedup query when an acknowledged alert no longer counts
RecentAlert_OpenOnly(as, id, type, window, t) ==
  \E i \in 1..Len(as) :
    /\ as[i].deviceId = id
    /\ as[i].alertType = type
    /\ ~as[i].isResolved
    /\ as[i].acknowledgedAt = Absent
    /\ as[i].timestamp >= t - window

\* the dedup query without its timestamp condition
RecentAlert_NoWindow(as, id, type, window, t) ==
  \E i \in 1..Len(as) :
    /\ as[i].deviceId = id
    /\ as[i].alertType = type
    /\ ~as[i].isResolved

\* alertSchema.virtual('status')
Status(a) ==
  IF a.isResolved THEN "resolved"
  ELSE IF a.acknowledgedAt # Absent THEN "acknowledged"
  ELSE "open"

\* Alert.findOne({deviceId, alertType, isResolved: false,
\*                timestamp: {$gte: now - window}}) found something
RecentAlert(as, id, type, window, t) ==
  \E i \in 1..Len(as) :
    /\ as[i].deviceId = id
    /\ as[i].alertType = type
    /\ ~as[i].isResolved
    /\ as[i].timestamp >= t - window

\* the guard of the low battery rule
LowBatteryCondition(dev, sample) ==
  /\ dev.lowBatteryEnabled
  /\ sample.batteryVoltage <
       (IF dev.batteryThreshold # 0 THEN dev.batteryThreshold
        ELSE DefaultBatteryThreshold) * VoltScale

\* the guard of the temperature rule
TemperatureCondition(sample) ==
  /\ sample.temperature # NoTemp
  /\ (sample.temperature < TempLow \/ sample.temperature > TempHigh)

LowBatterySeverity(sample) ==
  IF sample.batteryVoltage < CriticalVoltage * VoltScale THEN "critical" ELSE "high"

Abs(x) == IF x < 0 THEN -x ELSE x

TemperatureSeverity(sample) ==
  LET isHigh == sample.temperature > TempHigh
      th == IF isHigh THEN TempHigh ELSE TempLow
  IN IF Abs(sample.temperature - th) > TempCriticalMargin THEN "critical" ELSE "high"

\* the low battery block of checkAndCreateAlerts: the alerts it saves
LowBatteryAlerts(dev, sample, as, t) ==
  IF LowBatteryCondition(dev, sample)
     /\ ~RecentAlert(as, sample.deviceId, "low_battery", LowBatteryDedup, t)
  THEN <<NewAlert(sample.deviceId, "low_battery", LowBatterySeverity(sample), t)>>
  ELSE <<>>

\* the temperature block of checkAndCreateAlerts: the alerts it saves
TemperatureAlerts(sample, as, t) ==
  IF TemperatureCondition(sample)
     /\ ~RecentAlert(as, sample.deviceId, "temperature", TemperatureDedup, t)
  THEN <<NewAlert(sample.deviceId, "temperature", TemperatureSeverity(sample), t)>>
  ELSE <<>>

\* checkAndCreateAlerts: the created alerts, in the order they are saved
CheckAndCreateAlerts(dev, sample, as, t) ==
  LET lb == LowBatteryAlerts(dev, sample, as, t)
  IN lb \o TemperatureAlerts(sample, as \o lb, t)

\* the operation of the alert store that fails while a sample is evaluated
StoreFaults == {"none", "low_battery query", "low_battery save",
                "temperature query", "temperature save"}

\* the low battery block throws: its findOne or its alert.save() fails
LowBatteryThrows(dev, sample, as, t, fault) ==
  /\ LowBatteryCondition(dev, sample)
  /\ \/ fault = "low_battery query"
     \/ /\ fault = "low_battery save"
        /\ ~RecentAlert(as, sample.deviceId, "low_battery", LowBatteryDedup, t)

\* the temperature block throws: its findOne or its alert.save() fails
TemperatureThrows(sample, as, t, fault) ==
  /\ TemperatureCondition(sample)
  /\ \/ fault = "temperature query"
     \/ /\ fault = "temperature save"
        /\ ~RecentAlert(as, sample.deviceId, "temperature", TemperatureDedup, t)

\* checkAndCreateAlerts with alerts.push(alert) before alert.save()
CheckAndCreateAlertsOnFault_PushBeforeSave(dev, sample, as, t, fault) ==
  LET lb == LowBatteryAlerts(dev, sample, as, t)
      tp == TemperatureAlerts(sample, as \o lb, t)
  IN IF LowBatteryThrows(dev, sample, as, t, fault)
     THEN [saved |-> <<>>, pushed |-> IF fault = "low_battery save" THEN 1 ELSE 0]
     ELSE IF TemperatureThrows(sample, as \o lb, t, fault)
     THEN [saved |-> lb,
           pushed |-> Len(lb) + IF fault = "temperature save" THEN 1 ELSE 0]
     ELSE [saved |-> lb \o tp, pushed |-> Len(lb \o tp)]

\* checkAndCreateAlerts when the alert store fails at `fault`: saved are the
\* alerts stored, pushed the length of the array returned.  Both blocks are in
\* one try: an exception of the first block skips the second, and the catch
\* logs it and returns what was pushed so far.  A failed operation stores
\* nothing.
CheckAndCreateAlertsOnFault(dev, sample, as, t, fault) ==
  LET lb == LowBatteryAlerts(dev, sample, as, t)
      tp == TemperatureAlerts(sample, as \o lb, t)
  IN IF LowBatteryThrows(dev, sample, as, t, fault)
     THEN [saved |-> <<>>, pushed |-> 0]
     ELSE IF TemperatureThrows(sample, as \o lb, t, fault)
     THEN [saved |-> lb, pushed |-> Len(lb)]
     ELSE [saved |-> CheckAndCreateAlerts(dev, sample, as, t),
           pushed |-> Len(CheckAndCreateAlerts(dev, sample, as, t))]

\* -------------------------------------------------------------- requests
NoToken == [form |-> "none", sig |-> FALSE, iat |-> Absent, exp |-> Absent,
            nbf |-> Absent]

NoPayload == [deviceId |-> NoId, hasPos |-> FALSE, batteryVoltage |-> Absent,
              temperature |-> NoTemp, alertType |-> "", hasTitle |-> FALSE,
              hasMessage |-> FALSE, batteryThreshold |-> Absent,
              lowBatteryEnabled |-> FALSE, batteryPercentage |-> Absent,
              extra |-> {}]

NoReq == [ip |-> "", apiKey |-> "none", body |-> "none", tok |-> NoToken,
          payload |-> NoPayload, alertId |-> 0, credentialDevice |-> NoId,
   storeFault |-> "none"]

Response(route, req, status, reason, limiter, retryAfter, n) ==
  [route |-> route, req |-> req, at |-> now, status |-> status, reason |-> reason,
   limiter |-> limiter, retryAfter |-> retryAfter, alertsCreated |-> n]

\* the handler of createRateLimiter: res.status(429).json(config.message)
TooMany(route, req, l) ==
  Response(route, req, 429, "rate limit", l, RetryAfterOf(l), 0)

Failure(route, req, out) == Response(route, req, out[1], out[2], "", 0, 0)

\* schema.validate with stripUnknown: the validated body that replaces
\* req.body, when every unknown key is kept
StripUnknown_KeepsUnknown(p) == p

\* schema.validate with stripUnknown: the validated body that replaces
\* req.body has the keys of the schema only
StripUnknown(p) == [p EXCEPT !.extra = {}]

Clamp(lo, hi, x) == IF x < lo THEN lo ELSE IF x > hi THEN hi ELSE x

\* locationDataSchema.pre('save'): the stored percentage, in 1/PctScale of a
\* percent, of a document with percentage pct (same unit) and voltage v.
\* !this.batteryPercentage holds for undefined and for 0; this.batteryVoltage
\* is falsy for 0.  The map is (v - 3.0) / (4.2 - 3.0) * 100, not rounded.
PreSavePercentage(pct, v) ==
  IF (pct = Absent \/ pct = 0) /\ v # Absent /\ v # 0
  THEN Clamp(0, 100 * PctScale,
             ((v - 3 * VoltScale) * 100 * PctScale * 10) \div (12 * VoltScale))
  ELSE pct

\* the stored sample built by updateDeviceData from the validated body
SampleOf(p, t) ==
  [deviceId |-> p.deviceId, batteryVoltage |-> p.batteryVoltage,
   temperature |-> p.temperature, timestamp |-> t,
   batteryPercentage |->
     PreSavePercentage(IF Has(p.batteryPercentage) THEN p.batteryPercentage * PctScale
                       ELSE Absent, p.batteryVoltage),
   extra |-> p.extra]

\* the requests of update-data whose handler is waiting for the store:
\* pc is the await the handler is at, seenAt the value of new Date() in the
\* update it sent, matched what the upsert read, device the document that
\* findOneAndUpdate returned, sampleAt the default timestamp of the sample,
\* alertAt the default timestamp of the alert being saved, created the
\* length of the alerts array of checkAndCreateAlerts
Handlers == {1, 2}

Idle == [pc |-> "idle", req |-> NoReq, seenAt |-> 0, matched |-> FALSE,
         device |-> NoDevice, sampleAt |-> 0, alertAt |-> 0, created |-> 0]

\* ---------------------------------------------------------------- actions
Init ==
  /\ now = T0
  /\ rl = [l \in Limiters |-> [k \in Keys |-> NoClient]]
  /\ devices = [d \in DeviceIds |-> NoDevice]
  /\ samples = <<>>
  /\ alerts = <<>>
  /\ last = Response("none", NoReq, 0, "", "", 0, 0)
  /\ pending = [h \in Handlers |-> Idle]

Outcome(status, reason, limiter, proceed) ==
  [status |-> status, reason |-> reason, limiter |-> limiter, proceed |-> proceed]

\* the chain with a rate limit handler that sends 429 and still calls next()
UpdateDataChain_NextAfter429(req, s1, s2, t) ==
  LET auth == AuthenticateApiKey(req)
      dec == DecodeJwtPayload(req, t)
      errs == LocationDataErrors(req.payload)
  IN IF Exceeded(s1, "general", IpKey(req)) THEN Outcome(429, "rate limit", "general", FALSE)
     ELSE IF Exceeded(s2, "device", KeyGenerator(req))
       THEN Outcome(429, "rate limit", "device", auth[1] = 0 /\ dec[1] = 0 /\ errs = {})
     ELSE IF auth[1] # 0 THEN Outcome(auth[1], auth[2], "", FALSE)
     ELSE IF dec[1] # 0 THEN Outcome(dec[1], dec[2], "", FALSE)
     ELSE IF errs # {} THEN Outcome(400, "Validation failed", "", FALSE)
     ELSE Outcome(200, "Location data updated successfully", "", TRUE)

\* the middleware in front of updateDeviceData, in route order:
\* app.use(generalRateLimit), deviceRateLimit, authenticateApiKey,
\* decodeJwtPayload, validateLocationData, validateDeviceAccess.
\* s1, s2: the counter stores after the first and the second limiter.
UpdateDataChain(req, s1, s2, t) ==
  LET auth == AuthenticateApiKey(req)
      dec == DecodeJwtPayload(req, t)
      errs == LocationDataErrors(req.payload)
      acc == ValidateDeviceAccess(req)
  IN IF Exceeded(s1, "general", IpKey(req)) THEN Outcome(429, "rate limit", "general", FALSE)
     ELSE IF Exceeded(s2, "device", KeyGenerator(req)) THEN Outcome(429, "rate limit", "device", FALSE)
     ELSE IF auth[1] # 0 THEN Outcome(auth[1], auth[2], "", FALSE)
     ELSE IF dec[1] # 0 THEN Outcome(dec[1], dec[2], "", FALSE)
     ELSE IF errs # {} THEN Outcome(400, "Validation failed", "", FALSE)
     ELSE IF acc[1] # 0 THEN Outcome(acc[1], acc[2], "", FALSE)
     ELSE Outcome(200, "Location data updated successfully", "", TRUE)

\* POST /api/v1/device/update-data
UpdateData(req) ==
  LET route == "update-data"
      s1 == Increment(rl, "general", IpKey(req), now)
      s2 == Increment(s1, "device", KeyGenerator(req), now)
      out == UpdateDataChain(req, s1, s2, now)
      retry == IF out.limiter = "" THEN 0 ELSE RetryAfterOf(out.limiter)
      p == StripUnknown(req.payload)
      devs == UpsertLastSeen(devices, p.deviceId, now)
      sample == SampleOf(p, now)
      created == CheckAndCreateAlertsOnFault(devs[p.deviceId], sample, alerts, now,
                                             req.storeFault)
  IN
  /\ rl' = IF out.limiter = "general" THEN s1 ELSE s2
  /\ UNCHANGED <<pending, now, pending>>
  /\ IF out.proceed
     THEN /\ devices' = devs
          /\ samples' = Append(samples, sample)
          /\ alerts' = alerts \o created.saved
          /\ last' = Response(route, req, out.status, out.reason, out.limiter,
                              retry, created.pushed)
     ELSE /\ last' = Response(route, req, out.status, out.reason, out.limiter,
                              retry, 0)
          /\ UNCHANGED <<devices, samples, alerts>>

\* POST /api/v1/device/update-data, up to the first await of the controller:
\* the middleware, then new Date() and the call of Device.findOneAndUpdate
ArriveUpdateData(h, req) ==
  LET route == "update-data"
      s1 == Increment(rl, "general", IpKey(req), now)
      s2 == Increment(s1, "device", KeyGenerator(req), now)
      out == UpdateDataChain(req, s1, s2, now)
      retry == IF out.limiter = "" THEN 0 ELSE RetryAfterOf(out.limiter)
  IN
  /\ pending[h].pc = "idle"
  /\ rl' = IF out.limiter = "general" THEN s1 ELSE s2
  /\ UNCHANGED <<now, devices, samples, alerts>>
  /\ IF out.proceed
     THEN /\ pending' = [pending EXCEPT ![h] =
                           [Idle EXCEPT !.pc = "match", !.req = req, !.seenAt = now]]
          /\ UNCHANGED last
     ELSE /\ last' = Response(route, req, out.status, out.reason, out.limiter,
                              retry, 0)
          /\ UNCHANGED pending

\* the store reads the collection for {deviceId} on behalf of the upsert
UpsertMatch(h) ==
  /\ pending[h].pc = "match"
  /\ pending' = [pending EXCEPT ![h].pc = "commit",
                                ![h].matched = devices[pending[h].req.payload.deviceId].exists]
  /\ UNCHANGED <<now, rl, devices, samples, alerts, last>>

\* the store writes the upsert and the controller resumes with the document
\* (new: true) and builds the sample.  An insert that meets a document
\* written since the read is retried as an update by the server, or fails
\* with E11000, which the error handler answers with 409.
UpsertCommit(h) ==
  LET req == pending[h].req
      id == req.payload.deviceId
      devs == UpsertWrite(devices, id, pending[h].seenAt, pending[h].matched)
  IN
  /\ pending[h].pc = "commit"
  /\ UNCHANGED <<now, rl, samples, alerts>>
  /\ \E duplicateKey \in BOOLEAN :
       IF duplicateKey /\ ~pending[h].matched /\ devices[id].exists
       THEN /\ last' = Failure("update-data", req, <<409, "Device already exists">>)
            /\ pending' = [pending EXCEPT ![h] = Idle]
            /\ UNCHANGED devices
       ELSE /\ devices' = devs
            /\ pending' = [pending EXCEPT ![h].pc = "save", ![h].device = devs[id],
                                          ![h].sampleAt = now]
            /\ UNCHANGED last

\* locationData.save(), checkAndCreateAlerts and the response
FinishUpdateData(h) ==
  LET req == pending[h].req
      sample == SampleOf(StripUnknown(req.payload), pending[h].sampleAt)
      created == CheckAndCreateAlerts(pending[h].device, sample, alerts, now)
  IN
  /\ pending[h].pc = "save"
  /\ samples' = Append(samples, sample)
  /\ alerts' = alerts \o created
  /\ last' = Response("update-data", req, 200, "Location data updated successfully",
                      "", 0, Len(created))
  /\ pending' = [pending EXCEPT ![h] = Idle]
  /\ UNCHANGED <<now, rl, devices>>

\* await locationData.save()
SaveSample(h) ==
  /\ pending[h].pc = "save"
  /\ samples' = Append(samples, SampleOf(StripUnknown(pending[h].req.payload),
                                         pending[h].sampleAt))
  /\ pending' = [pending EXCEPT ![h].pc = "low_battery query"]
  /\ UNCHANGED <<now, rl, devices, alerts, last>>

\* the dedup query with isResolved: true in the filter
DedupQuery_ResolvedOnly(as, id, type, t) ==
  \E i \in 1..Len(as) :
    /\ as[i].deviceId = id
    /\ as[i].alertType = type
    /\ as[i].isResolved
    /\ as[i].timestamp >= t - (IF type = "low_battery" THEN LowBatteryDedup
                               ELSE TemperatureDedup)

\* await Alert.findOne({deviceId, alertType, isResolved: false, timestamp:
\* {$gte: now - window}}) on the alerts stored when the query runs
DedupQuery(as, id, type, t) ==
  RecentAlert(as, id, type,
              IF type = "low_battery" THEN LowBatteryDedup ELSE TemperatureDedup, t)

\* the handler leaves the block of a rule with n alerts pushed: the
\* temperature block follows the low battery block, the response follows the
\* temperature block
LeaveRule(h, type, n) ==
  IF type = "low_battery"
  THEN /\ pending' = [pending EXCEPT ![h].pc = "temperature query", ![h].created = n]
       /\ UNCHANGED last
  ELSE /\ pending' = [pending EXCEPT ![h] = Idle]
       /\ last' = Response("update-data", pending[h].req, 200,
                           "Location data updated successfully", "", 0, n)

\* the block of one rule in checkAndCreateAlerts up to await alert.save():
\* the condition, the dedup query and new Alert({...})
RuleQuery(h) ==
  LET type == IF pending[h].pc = "low_battery query" THEN "low_battery" ELSE "temperature"
      sample == SampleOf(StripUnknown(pending[h].req.payload), pending[h].sampleAt)
      cond == IF type = "low_battery" THEN LowBatteryCondition(pending[h].device, sample)
              ELSE TemperatureCondition(sample)
  IN
  /\ pending[h].pc \in {"low_battery query", "temperature query"}
  /\ UNCHANGED <<now, rl, devices, samples, alerts>>
  /\ IF cond /\ ~DedupQuery(alerts, sample.deviceId, type, now)
     THEN /\ pending' = [pending EXCEPT ![h].pc = IF type = "low_battery"
                                                  THEN "low_battery insert"
                                                  ELSE "temperature insert",
                                        ![h].alertAt = now]
          /\ UNCHANGED last
     ELSE LeaveRule(h, type, pending[h].created)

\* await alert.save() and alerts.push(alert) of the block of one rule
RuleInsert(h) ==
  LET type == IF pending[h].pc = "low_battery insert" THEN "low_battery" ELSE "temperature"
      sample == SampleOf(StripUnknown(pending[h].req.payload), pending[h].sampleAt)
      sev == IF type = "low_battery" THEN LowBatterySeverity(sample)
             ELSE TemperatureSeverity(sample)
  IN
  /\ pending[h].pc \in {"low_battery insert", "temperature insert"}
  /\ alerts' = Append(alerts, NewAlert(sample.deviceId, type, sev, pending[h].alertAt))
  /\ UNCHANGED <<now, rl, devices, samples>>
  /\ LeaveRule(h, type, pending[h].created + 1)

\* the clock advances by d seconds; MemoryStore.clearExpired drops the
\* clients whose window has elapsed
Tick(d, limit) ==
  /\ now + d <= T0 + limit
  /\ now' = now + d
  /\ rl' = [l \in Limiters |-> [k \in Keys |->
              IF rl[l][k].resetTime <= now + d THEN NoClient ELSE rl[l][k]]]
  /\ UNCHANGED <<devices, samples, alerts, last, pending>>

\* alertSchema (Joi) of the alert-creation endpoint: the failing fields
JoiAlertTypes == AlertTypes \cup {"watchdog_triggered", "gps_malfunction",
                                  "obd2_malfunction", "gyroscope_malfunction"}

AlertErrors(p) ==
  (IF p.deviceId = NoId THEN {"deviceId"} ELSE {})
  \cup (IF p.alertType \notin JoiAlertTypes THEN {"alertType"} ELSE {})
  \cup (IF ~p.hasMessage THEN {"message"} ELSE {})

\* alertSchema (Mongoose) validation run by alert.save(): the failing paths.
\* Validation runs before the pre('save') hook that would fill the title.
AlertSaveErrors(p) ==
  (IF p.alertType \notin AlertTypes THEN {"alertType"} ELSE {})
  \cup (IF ~p.hasTitle THEN {"title"} ELSE {})

\* POST /api/v1/alert: app.use(generalRateLimit), then alertRateLimit
\* (skipFailedRequests), authenticateApiKey, decodeJwtPayload, validateAlert,
\* validateDeviceAccess, createAlert
CreateAlert(req) ==
  LET route == "alert"
      key == KeyGenerator(req)
      s1 == Increment(rl, "general", IpKey(req), now)
      s2 == Increment(s1, "alert", key, now)
      failed == Decrement(s2, "alert", key)
      auth == AuthenticateApiKey(req)
      dec == DecodeJwtPayload(req, now)
      errs == AlertErrors(req.payload)
      acc == ValidateDeviceAccess(req)
      p == req.payload
      devs == UpsertLastSeen(devices, p.deviceId, now)
  IN
  IF Exceeded(s1, "general", IpKey(req)) THEN
       /\ rl' = s1
       /\ last' = TooMany(route, req, "general")
       /\ UNCHANGED <<pending, now, devices, samples, alerts>>
  ELSE IF Exceeded(s2, "alert", key) THEN
       /\ rl' = failed
       /\ last' = TooMany(route, req, "alert")
       /\ UNCHANGED <<pending, now, devices, samples, alerts>>
  ELSE IF auth[1] # 0 \/ dec[1] # 0 \/ errs # {} \/ acc[1] # 0 THEN
       /\ rl' = failed
       /\ last' = Failure(route, req,
                    IF auth[1] # 0 THEN auth
                    ELSE IF dec[1] # 0 THEN dec
                    ELSE IF errs # {} THEN <<400, "Validation failed">>
                    ELSE acc)
       /\ UNCHANGED <<pending, now, devices, samples, alerts>>
  ELSE IF AlertSaveErrors(p) # {} THEN
       /\ rl' = failed
       /\ devices' = devs
       /\ last' = Failure(route, req, <<400, "Invalid alert data">>)
       /\ UNCHANGED <<pending, now, samples, alerts>>
  ELSE /\ rl' = s2
       /\ devices' = devs
       /\ alerts' = Append(alerts, NewAlert(p.deviceId, p.alertType, "medium", now))
       /\ last' = Response(route, req, 201, "Alert created successfully", "", 0, 0)
       /\ UNCHANGED <<pending, now, samples>>

\* POST /api/v1/device/register: generalRateLimit runs twice on one store
\* (app.use and the route), then authenticateApiKey, validateDevice,
\* validateDeviceAccess, registerDevice
RegisterDevice(req) ==
  LET route == "register"
      s1 == Increment(rl, "general", IpKey(req), now)
      s2 == Increment(s1, "general", IpKey(req), now)
      auth == AuthenticateApiKey(req)
      p == req.payload
  IN
  IF Exceeded(s1, "general", IpKey(req)) THEN
       /\ rl' = s1
       /\ last' = TooMany(route, req, "general")
       /\ UNCHANGED <<pending, now, devices, samples, alerts>>
  ELSE IF Exceeded(s2, "general", IpKey(req)) THEN
       /\ rl' = s2
       /\ last' = TooMany(route, req, "general")
       /\ UNCHANGED <<pending, now, devices, samples, alerts>>
  ELSE IF auth[1] # 0 THEN
       /\ rl' = s2
       /\ last' = Failure(route, req, auth)
       /\ UNCHANGED <<pending, now, devices, samples, alerts>>
  ELSE IF p.deviceId = NoId \/ p.batteryThreshold > 100 THEN
       /\ rl' = s2
       /\ last' = Failure(route, req, <<400, "Validation failed">>)
       /\ UNCHANGED <<pending, now, devices, samples, alerts>>
  ELSE /\ rl' = s2
       /\ devices' = [devices EXCEPT ![p.deviceId] =
            [exists |-> TRUE, lastSeen |-> now,
             batteryThreshold |-> IF Has(p.batteryThreshold) THEN p.batteryThreshold
                                  ELSE DefaultBatteryThreshold,
             lowBatteryEnabled |-> p.lowBatteryEnabled, docs |-> 1]]
       /\ last' = Response(route, req, 201, "Device registered", "", 0, 0)
       /\ UNCHANGED <<pending, now, samples, alerts>>

\* the part of the acknowledge/resolve routes before the controller:
\* app.use(generalRateLimit), strictRateLimit, authenticateApiKey
CommandGate(req) ==
  LET s1 == Increment(rl, "general", IpKey(req), now)
      s2 == Increment(s1, "strict", IpKey(req), now)
      auth == AuthenticateApiKey(req)
  IN IF Exceeded(s1, "general", IpKey(req)) THEN [rl |-> s1, limiter |-> "general", out |-> <<429, "">>]
     ELSE IF Exceeded(s2, "strict", IpKey(req)) THEN [rl |-> s2, limiter |-> "strict", out |-> <<429, "">>]
     ELSE [rl |-> s2, limiter |-> "", out |-> auth]

\* resolveAlert setting the flag and leaving resolvedAt to nobody
ResolveAlert_FlagOnly(req) ==
  LET route == "resolve"
      gate == CommandGate(req)
      id == req.alertId
  IN
  /\ rl' = gate.rl
  /\ UNCHANGED <<pending, now, devices, samples>>
  /\ IF gate.limiter # "" THEN
          /\ last' = TooMany(route, req, gate.limiter)
          /\ UNCHANGED alerts
     ELSE IF gate.out[1] # 0 THEN
          /\ last' = Failure(route, req, gate.out)
          /\ UNCHANGED alerts
     ELSE IF id = MalformedId THEN
          /\ last' = Failure(route, req, <<400, "Invalid ID format">>)
          /\ UNCHANGED alerts
     ELSE IF NotFound(alerts, id) THEN
          /\ last' = Failure(route, req, <<404, "Alert not found">>)
          /\ UNCHANGED alerts
     ELSE IF alerts[id].isResolved THEN
          /\ last' = Failure(route, req, <<400, "Alert is already resolved">>)
          /\ UNCHANGED alerts
     ELSE /\ alerts' = [alerts EXCEPT ![id] = StrictSave(@, [@ EXCEPT !.isResolved = TRUE])]
          /\ last' = Response(route, req, 200, "Alert resolved successfully", "", 0, 0)

\* resolveAlert without the check of alert.isResolved
ResolveAlert_ResolvesTwice(req) ==
  LET route == "resolve"
      gate == CommandGate(req)
      id == req.alertId
  IN
  /\ rl' = gate.rl
  /\ UNCHANGED <<pending, now, devices, samples>>
  /\ IF gate.limiter # "" THEN
          /\ last' = TooMany(route, req, gate.limiter)
          /\ UNCHANGED alerts
     ELSE IF gate.out[1] # 0 THEN
          /\ last' = Failure(route, req, gate.out)
          /\ UNCHANGED alerts
     ELSE IF id = MalformedId THEN
          /\ last' = Failure(route, req, <<400, "Invalid ID format">>)
          /\ UNCHANGED alerts
     ELSE IF NotFound(alerts, id) THEN
          /\ last' = Failure(route, req, <<404, "Alert not found">>)
          /\ UNCHANGED alerts
     ELSE /\ alerts' = [alerts EXCEPT ![id] =
                          StrictSave(@, [@ EXCEPT !.isResolved = TRUE, !.resolvedAt = now])]
          /\ last' = Response(route, req, 200, "Alert resolved successfully", "", 0, 0)

\* resolveAlert when resolving also resets the acknowledgement
ResolveAlert_ClearsAcknowledged(req) ==
  LET route == "resolve"
      gate == CommandGate(req)
      id == req.alertId
  IN
  /\ rl' = gate.rl
  /\ UNCHANGED <<pending, now, devices, samples>>
  /\ IF gate.limiter # "" THEN
          /\ last' = TooMany(route, req, gate.limiter)
          /\ UNCHANGED alerts
     ELSE IF gate.out[1] # 0 THEN
          /\ last' = Failure(route, req, gate.out)
          /\ UNCHANGED alerts
     ELSE IF id = MalformedId THEN
          /\ last' = Failure(route, req, <<400, "Invalid ID format">>)
          /\ UNCHANGED alerts
     ELSE IF NotFound(alerts, id) THEN
          /\ last' = Failure(route, req, <<404, "Alert not found">>)
          /\ UNCHANGED alerts
     ELSE IF alerts[id].isResolved THEN
          /\ last' = Failure(route, req, <<400, "Alert is already resolved">>)
          /\ UNCHANGED alerts
     ELSE /\ alerts' = [alerts EXCEPT ![id] =
                          StrictSave(@, [@ EXCEPT !.isResolved = TRUE, !.resolvedAt = now,
                                                  !.acknowledgedAt = Absent])]
          /\ last' = Response(route, req, 200, "Alert resolved successfully", "", 0, 0)

\* PUT /api/v1/alert/:alertId/resolve
ResolveAlert(req) ==
  LET route == "resolve"
      gate == CommandGate(req)
      id == req.alertId
  IN
  /\ rl' = gate.rl
  /\ UNCHANGED <<pending, now, devices, samples>>
  /\ IF gate.limiter # "" THEN
          /\ last' = TooMany(route, req, gate.limiter)
          /\ UNCHANGED alerts
     ELSE IF gate.out[1] # 0 THEN
          /\ last' = Failure(route, req, gate.out)
          /\ UNCHANGED alerts
     ELSE IF id = MalformedId THEN
          /\ last' = Failure(route, req, <<400, "Invalid ID format">>)
          /\ UNCHANGED alerts
     ELSE IF NotFound(alerts, id) THEN
          /\ last' = Failure(route, req, <<404, "Alert not found">>)
          /\ UNCHANGED alerts
     ELSE IF alerts[id].isResolved THEN
          /\ last' = Failure(route, req, <<400, "Alert is already resolved">>)
          /\ UNCHANGED alerts
     ELSE /\ alerts' = [alerts EXCEPT ![id] =
                          StrictSave(@, [@ EXCEPT !.isResolved = TRUE, !.resolvedAt = now])]
          /\ last' = Response(route, req, 200, "Alert resolved successfully", "", 0, 0)

\* acknowledgeAlert without its check of alert.isResolved
AcknowledgeAlert_NoResolvedCheck(req) ==
  LET route == "acknowledge"
      gate == CommandGate(req)
      id == req.alertId
  IN
  /\ rl' = gate.rl
  /\ UNCHANGED <<pending, now, devices, samples>>
  /\ IF gate.limiter # "" THEN
          /\ last' = TooMany(route, req, gate.limiter)
          /\ UNCHANGED alerts
     ELSE IF gate.out[1] # 0 THEN
          /\ last' = Failure(route, req, gate.out)
          /\ UNCHANGED alerts
     ELSE IF id = MalformedId THEN
          /\ last' = Failure(route, req, <<400, "Invalid ID format">>)
          /\ UNCHANGED alerts
     ELSE IF NotFound(alerts, id) THEN
          /\ last' = Failure(route, req, <<404, "Alert not found">>)
          /\ UNCHANGED alerts
     ELSE IF Has(alerts[id].acknowledgedAt) THEN
          /\ last' = Failure(route, req, <<400, "Alert is already acknowledged">>)
          /\ UNCHANGED alerts
     ELSE /\ alerts' = [alerts EXCEPT ![id] =
                          StrictSave(@, [@ EXCEPT !.acknowledgedAt = now])]
          /\ last' = Response(route, req, 200, "Alert acknowledged successfully", "", 0, 0)

\* PUT /api/v1/alert/:alertId/acknowledge
AcknowledgeAlert(req) ==
  LET route == "acknowledge"
      gate == CommandGate(req)
      id == req.alertId
  IN
  /\ rl' = gate.rl
  /\ UNCHANGED <<pending, now, devices, samples>>
  /\ IF gate.limiter # "" THEN
          /\ last' = TooMany(route, req, gate.limiter)
          /\ UNCHANGED alerts
     ELSE IF gate.out[1] # 0 THEN
          /\ last' = Failure(route, req, gate.out)
          /\ UNCHANGED alerts
     ELSE IF id = MalformedId THEN
          /\ last' = Failure(route, req, <<400, "Invalid ID format">>)
          /\ UNCHANGED alerts
     ELSE IF NotFound(alerts, id) THEN
          /\ last' = Failure(route, req, <<404, "Alert not found">>)
          /\ UNCHANGED alerts
     ELSE IF alerts[id].isResolved THEN
          /\ last' = Failure(route, req, <<400, "Cannot acknowledge a resolved alert">>)
          /\ UNCHANGED alerts
     ELSE IF Has(alerts[id].acknowledgedAt) THEN
          /\ last' = Failure(route, req, <<400, "Alert is already acknowledged">>)
          /\ UNCHANGED alerts
     ELSE /\ alerts' = [alerts EXCEPT ![id] =
                          StrictSave(@, [@ EXCEPT !.acknowledgedAt = now])]
          /\ last' = Response(route, req, 200, "Alert acknowledged successfully", "", 0, 0)

\* the archive route without its master key check
DeleteAlert_NoMasterCheck(req) ==
  LET route == "archive"
      gate == CommandGate(req)
      id == req.alertId
  IN
  /\ rl' = gate.rl
  /\ UNCHANGED <<pending, now, devices, samples>>
  /\ IF gate.limiter # "" THEN
          /\ last' = TooMany(route, req, gate.limiter)
          /\ UNCHANGED alerts
     ELSE IF gate.out[1] # 0 THEN
          /\ last' = Failure(route, req, gate.out)
          /\ UNCHANGED alerts
     ELSE IF id = MalformedId THEN
          /\ last' = Failure(route, req, <<400, "Invalid ID format">>)
          /\ UNCHANGED alerts
     ELSE IF NotFound(alerts, id) THEN
          /\ last' = Failure(route, req, <<404, "Alert not found">>)
          /\ UNCHANGED alerts
     ELSE /\ alerts' = [alerts EXCEPT ![id] = StrictSave(@, [@ EXCEPT !.deletedAt = now])]
          /\ last' = Response(route, req, 200, "Alert archived successfully - data preserved",
                              "", 0, 0)

\* DELETE /api/v1/alert/:alertId: app.use(generalRateLimit), strictRateLimit,
\* authenticateApiKey, the master key check of the route, deleteAlert
DeleteAlert(req) ==
  LET route == "archive"
      gate == CommandGate(req)
      id == req.alertId
  IN
  /\ rl' = gate.rl
  /\ UNCHANGED <<pending, now, devices, samples>>
  /\ IF gate.limiter # "" THEN
          /\ last' = TooMany(route, req, gate.limiter)
          /\ UNCHANGED alerts
     ELSE IF gate.out[1] # 0 THEN
          /\ last' = Failure(route, req, gate.out)
          /\ UNCHANGED alerts
     ELSE IF req.apiKey # "master" THEN
          /\ last' = Failure(route, req, <<403, "Master API key required for this operation">>)
          /\ UNCHANGED alerts
     ELSE IF id = MalformedId THEN
          /\ last' = Failure(route, req, <<400, "Invalid ID format">>)
          /\ UNCHANGED alerts
     ELSE IF NotFound(alerts, id) THEN
          /\ last' = Failure(route, req, <<404, "Alert not found">>)
          /\ UNCHANGED alerts
     ELSE /\ alerts' = [alerts EXCEPT ![id] = StrictSave(@, [@ EXCEPT !.deletedAt = now])]
          /\ last' = Response(route, req, 200, "Alert archived successfully - data preserved",
                              "", 0, 0)

\* ------------------------------------------------------- specifications
\* the requests a caller has made in the current catch-all window
\* the check of resolveAlert and of acknowledgeAlert on the document that
\* Alert.findById returned
TransitionError(route, a) ==
  IF route = "resolve"
  THEN IF a.isResolved THEN <<400, "Alert is already resolved">> ELSE <<0, "ok">>
  ELSE IF a.isResolved THEN <<400, "Cannot acknowledge a resolved alert">>
  ELSE IF a.acknowledgedAt # Absent THEN <<400, "Alert is already acknowledged">>
  ELSE <<0, "ok">>

\* resolveAlert or acknowledgeAlert up to await alert.save(): the route's
\* middleware, Alert.findById, the checks on the loaded document and the
\* assignment of new Date() to it.  pending[h].pc names the handler that
\* waits for its save, pending[h].seenAt the date it assigned.
BeginCommand(h, route, req) ==
  LET gate == CommandGate(req)
      id == req.alertId
  IN
  /\ pending[h].pc = "idle"
  /\ rl' = gate.rl
  /\ UNCHANGED <<now, devices, samples, alerts>>
  /\ IF gate.limiter # "" THEN
          /\ last' = TooMany(route, req, gate.limiter)
          /\ UNCHANGED pending
     ELSE IF gate.out[1] # 0 THEN
          /\ last' = Failure(route, req, gate.out)
          /\ UNCHANGED pending
     ELSE IF id = MalformedId THEN
          /\ last' = Failure(route, req, <<400, "Invalid ID format">>)
          /\ UNCHANGED pending
     ELSE IF NotFound(alerts, id) THEN
          /\ last' = Failure(route, req, <<404, "Alert not found">>)
          /\ UNCHANGED pending
     ELSE IF TransitionError(route, alerts[id])[1] # 0 THEN
          /\ last' = Failure(route, req, TransitionError(route, alerts[id]))
          /\ UNCHANGED pending
     ELSE /\ pending' = [pending EXCEPT ![h] =
                           [Idle EXCEPT !.pc = route, !.req = req, !.seenAt = now]]
          /\ UNCHANGED last

\* alert.save() of the document loaded by BeginCommand, and the response:
\* the store sets the paths the handler modified on the stored document,
\* whatever was written to it since it was loaded (no version check)
FinishCommand(h) ==
  LET req == pending[h].req
      id == req.alertId
      route == pending[h].pc
      t == pending[h].seenAt
  IN
  /\ route \in {"resolve", "acknowledge"}
  /\ alerts' = [alerts EXCEPT ![id] =
                  IF route = "resolve"
                  THEN [@ EXCEPT !.isResolved = TRUE, !.resolvedAt = t]
                  ELSE [@ EXCEPT !.acknowledgedAt = t]]
  /\ last' = Response(route, req, 200,
                      IF route = "resolve" THEN "Alert resolved successfully"
                      ELSE "Alert acknowledged successfully", "", 0, 0)
  /\ pending' = [pending EXCEPT ![h] = Idle]
  /\ UNCHANGED <<now, rl, devices, samples>>

Hits(ip) == rl["general"][<<"addr", ip>>].totalHits

StoreBound(ns, na) == Len(samples') <= ns /\ Len(alerts') <= na

Wrapped(key, tok, p) ==
  [ip |-> "ip1", apiKey |-> key, body |-> "wrapped", tok |-> tok, payload |-> p,
   alertId |-> 0, credentialDevice |-> NoId,
   storeFault |-> "none"]

Plain(key, p) ==
  [ip |-> "ip1", apiKey |-> key, body |-> "plain", tok |-> NoToken, payload |-> p,
   alertId |-> 0, credentialDevice |-> NoId,
   storeFault |-> "none"]

Command(key, id) ==
  [ip |-> "ip1", apiKey |-> key, body |-> "plain", tok |-> NoToken,
   payload |-> NoPayload, alertId |-> id, credentialDevice |-> NoId,
   storeFault |-> "none"]

FreshToken(t) == [form |-> "ok", sig |-> TRUE, iat |-> t, exp |-> t + MaxAge,
                  nbf |-> Absent]

Telemetry(id, v, temp) ==
  [NoPayload EXCEPT !.deviceId = id, !.hasPos = TRUE, !.batteryVoltage = v,
                    !.temperature = temp]

AlertPayload(id, type, title) ==
  [NoPayload EXCEPT !.deviceId = id, !.alertType = type, !.hasTitle = title,
                    !.hasMessage = TRUE]

\* --- tokens of every kind, at most MaxTokenReqs requests per window
Tokens(t) ==
  {[NoToken EXCEPT !.form = "malformed"]} \cup
  [form : {"ok"}, sig : BOOLEAN,
   iat : {Absent, t - MaxAge - 1, t - MaxAge, t, t + 60},
   exp : {Absent, t, t + 3600},
   nbf : {Absent, t + 1}]

TokenPayloads == {Telemetry("DEV1", 250, NoTemp), Telemetry(NoId, 250, NoTemp),
                  Telemetry("DEV1", Absent, NoTemp)}

TokenReqs(t) ==
  {Wrapped("standard", tok, p) : tok \in Tokens(t), p \in TokenPayloads}
  \cup {Plain("standard", p) : p \in TokenPayloads}

TokenAlertReqs(t) ==
  {Wrapped("standard", tok, AlertPayload("DEV1", "custom", TRUE)) : tok \in Tokens(t)}
  \cup {Plain("standard", AlertPayload("DEV1", "custom", TRUE))}

NextToken ==
  \/ \E req \in TokenReqs(now) :
       Hits(req.ip) < MaxTokenReqs /\ UpdateData(req) /\ StoreBound(MaxSamples, MaxAlerts)
  \/ \E req \in TokenAlertReqs(now) :
       Hits(req.ip) < MaxTokenReqs /\ CreateAlert(req) /\ StoreBound(MaxSamples, MaxAlerts)
  \/ Tick(60, MaxElapsed)

SpecToken == Init /\ [][NextToken]_vars

\* --- ingestion from one caller IP up to the catch-all limit
RateReqs(t) ==
  {Wrapped(k, FreshToken(t), Telemetry(id, 31, NoTemp)) :
     k \in {"standard", "invalid"}, id \in DeviceIds}

NextRate ==
  \/ \E req \in RateReqs(now) :
       Hits(req.ip) <= GeneralMax /\ UpdateData(req) /\ StoreBound(MaxRateSamples, MaxAlerts)
  \/ Tick(DeviceWindow, MaxElapsed)

SpecRate == Init /\ [][NextRate]_vars

\* --- acknowledge/resolve commands from one caller IP
CommandReqs == {Command("standard", id) : id \in 1..2}

NextCommand ==
  \/ \E req \in {Wrapped("standard", FreshToken(now), Telemetry("DEV1", 31, NoTemp))} :
       Hits(req.ip) < MaxCommandReqs /\ UpdateData(req) /\ StoreBound(MaxRateSamples, MaxAlerts)
  \/ \E req \in CommandReqs : Hits(req.ip) < MaxCommandReqs /\ ResolveAlert(req)
  \/ \E req \in CommandReqs : Hits(req.ip) < MaxCommandReqs /\ AcknowledgeAlert(req)
  \/ Tick(StrictWindow, MaxElapsed)

SpecCommand == Init /\ [][NextCommand]_vars

\* --- the rule engine over a span longer than the dedup windows
AlertSamples ==
  {Telemetry("DEV1", 31, NoTemp), Telemetry("DEV1", 31, 70),
   Telemetry("DEV1", 250, NoTemp), Telemetry("DEV2", 31, 70)}

AlertReqs(t) == {Wrapped("standard", FreshToken(t), p) : p \in AlertSamples}

RegisterReqs ==
  {Plain("standard", [NoPayload EXCEPT !.deviceId = "DEV1", !.batteryThreshold = th,
                                       !.lowBatteryEnabled = en]) :
     <<th, en>> \in {<<2, TRUE>>, <<20, FALSE>>}}

Next ==
  \/ \E req \in AlertReqs(now) :
       Hits(req.ip) < MaxAlertReqs /\ UpdateData(req) /\ StoreBound(MaxSamples, MaxAlerts)
  \/ \E req \in RegisterReqs : Hits(req.ip) + 1 < MaxAlertReqs /\ RegisterDevice(req)
  \/ \E id \in 1..MaxAlerts :
       Hits("ip1") < MaxAlertReqs /\ ResolveAlert(Command("standard", id))
  \/ Hits("ip1") < MaxAlertReqs /\ AcknowledgeAlert(Command("standard", 1))
  \/ Tick(300, MaxShortElapsed)
  \/ Tick(1560, MaxAlertElapsed)

Spec == Init /\ [][Next]_vars

\* --- suppression, acknowledgement and the end of the dedup window
SuppressReqs(t) ==
  {Wrapped("standard", FreshToken(t), p) :
     p \in {Telemetry("DEV1", 31, NoTemp), Telemetry("DEV1", 31, 70)}}

NextSuppress ==
  \/ \E req \in SuppressReqs(now) :
       Hits(req.ip) < MaxSuppressReqs /\ UpdateData(req) /\ StoreBound(MaxSamples, MaxAlerts)
  \/ \E id \in 1..2 :
       Hits("ip1") < MaxSuppressReqs /\ AcknowledgeAlert(Command("standard", id))
  \/ Tick(600, MaxSuppressElapsed)
  \/ Tick(1800, MaxSuppressElapsed)

SpecSuppress == Init /\ [][NextSuppress]_vars

\* --- the alert lifecycle: raise, create, acknowledge, resolve, archive
LifeCommands(keys) == {Command(k, id) : k \in keys, id \in 1..2}

NextLifecycle ==
  \/ \E req \in {Wrapped("standard", FreshToken(now), Telemetry("DEV1", 31, 70))} :
       Hits(req.ip) < MaxLifeReqs /\ UpdateData(req) /\ StoreBound(MaxRateSamples, MaxAlerts)
  \/ \E req \in {Plain("standard", AlertPayload("DEV1", "custom", TRUE))} :
       Hits(req.ip) < MaxLifeReqs /\ CreateAlert(req) /\ StoreBound(MaxRateSamples, MaxAlerts)
  \/ \E req \in LifeCommands({"standard"}) :
       Hits(req.ip) < MaxLifeReqs /\ AcknowledgeAlert(req)
  \/ \E req \in LifeCommands({"standard"}) :
       Hits(req.ip) < MaxLifeReqs /\ ResolveAlert(req)
  \/ \E req \in LifeCommands({"master", "standard", "none"}) :
       Hits(req.ip) < MaxLifeReqs /\ DeleteAlert(req)
  \/ Tick(StrictWindow, MaxLifeElapsed)

SpecLifecycle == Init /\ [][NextLifecycle]_vars

\* --- the shape of a verified submission
ShapePayloads ==
  {[NoPayload EXCEPT !.deviceId = id, !.hasPos = pos, !.batteryVoltage = v,
                     !.batteryPercentage = pct, !.extra = x] :
     id \in {"DEV1", NoId}, pos \in BOOLEAN, v \in {Absent, 0, 36, 42},
     pct \in {Absent, 0, 50}, x \in {{}, {"pressure"}}}

NextShape ==
  \/ \E p \in ShapePayloads :
       /\ Hits("ip1") < MaxShapeReqs
       /\ UpdateData(Wrapped("standard", FreshToken(now), p))
       /\ StoreBound(MaxShapeSamples, MaxAlerts)
  \/ Tick(DeviceWindow, MaxElapsed)

SpecShape == Init /\ [][NextShape]_vars

\* --- submissions in flight at the same time, and registration
ConcReqs(t) ==
  {Wrapped(key, FreshToken(t), Telemetry(id, 42, NoTemp)) :
     <<key, id>> \in {<<"standard", "DEV1">>, <<"standard", "DEV2">>, <<"none", "DEV1">>}}

ConcRegisterReqs ==
  {Plain("standard", [NoPayload EXCEPT !.deviceId = "DEV1", !.batteryThreshold = 2,
                                       !.lowBatteryEnabled = FALSE])}

NextConcurrent ==
  \/ \E h \in Handlers : \E req \in ConcReqs(now) :
       Hits(req.ip) < MaxConcReqs /\ ArriveUpdateData(h, req)
  \/ \E h \in Handlers : UpsertMatch(h)
  \/ \E h \in Handlers : UpsertCommit(h)
  \/ \E h \in Handlers : FinishUpdateData(h)
  \/ \E req \in ConcRegisterReqs : Hits(req.ip) + 1 < MaxConcReqs /\ RegisterDevice(req)
  \/ Tick(DeviceWindow, MaxConcElapsed)

SpecConcurrent == Init /\ [][NextConcurrent]_vars

\* --- callers whose API key was issued for one identity
AccessReqs(t) ==
  {[Wrapped(key, FreshToken(t), Telemetry(id, 42, NoTemp))
      EXCEPT !.credentialDevice = cred] :
     key \in {"standard", "master"}, id \in DeviceIds, cred \in DeviceIds \cup {NoId}}

NextAccess ==
  \/ \E req \in AccessReqs(now) :
       /\ Hits(req.ip) < MaxAccessReqs
       /\ UpdateData(req)
       /\ StoreBound(MaxSamples, MaxAlerts)
  \/ Tick(DeviceWindow, MaxElapsed)

SpecAccess == Init /\ [][NextAccess]_vars

\* --- samples evaluated while an operation of the alert store fails
FaultReqs(t) ==
  {[Wrapped("standard", FreshToken(t), Telemetry("DEV1", v, temp))
      EXCEPT !.storeFault = fault] :
     v \in {31, 250}, temp \in {NoTemp, 70}, fault \in StoreFaults}

NextFault ==
  \/ \E req \in FaultReqs(now) :
       /\ Hits(req.ip) < MaxFaultReqs
       /\ UpdateData(req)
       /\ StoreBound(MaxSamples, MaxAlerts)
  \/ Tick(DeviceWindow, MaxElapsed)

SpecFault == Init /\ [][NextFault]_vars

\* --- submissions and alert creations that are answered with an error
WriteReqs(t) ==
  {Wrapped(k, FreshToken(t), p) :
     k \in {"standard", "invalid"},
     p \in {Telemetry("DEV1", 31, NoTemp), Telemetry(NoId, 31, NoTemp)}}

WriteAlertReqs ==
  {Plain(k, AlertPayload(id, type, title)) :
     k \in {"standard", "invalid"}, id \in {"DEV2", NoId},
     type \in {"custom", "watchdog_triggered", "unknown"}, title \in BOOLEAN}

NextWriteErrors ==
  \/ \E req \in WriteReqs(now) :
       /\ Hits(req.ip) < MaxWriteReqs
       /\ UpdateData(req)
       /\ StoreBound(MaxSamples, MaxAlerts)
  \/ \E req \in WriteAlertReqs :
       /\ Hits(req.ip) < MaxWriteReqs
       /\ CreateAlert(req)
       /\ StoreBound(MaxSamples, MaxAlerts)
  \/ Tick(DeviceWindow, MaxElapsed)

SpecWriteErrors == Init /\ [][NextWriteErrors]_vars

\* --- lifecycle commands on unknown, malformed and finished alerts
ErrCommands == {Command("standard", id) : id \in {MalformedId, 1, 2}}

NextCommandErrors ==
  \/ \E req \in {Wrapped("standard", FreshToken(now), Telemetry("DEV1", 31, NoTemp))} :
       Hits(req.ip) < MaxErrReqs /\ UpdateData(req) /\ StoreBound(MaxRateSamples, MaxAlerts)
  \/ \E req \in ErrCommands : Hits(req.ip) < MaxErrReqs /\ AcknowledgeAlert(req)
  \/ \E req \in ErrCommands : Hits(req.ip) < MaxErrReqs /\ ResolveAlert(req)
  \/ Tick(StrictWindow, MaxLifeElapsed)

SpecCommandErrors == Init /\ [][NextCommandErrors]_vars

\* --- log records of the failure paths
\* a record passed to logger by a middleware or handler, with what it holds
\* of the request body: "none", "preview" (the first 50 characters of the
\* token string), "field errors", "json body" or "decoded claims" (req.body of
\* a request without token or after decoding) or "raw token" (req.body as
\* received: the token string with its signature)
LogRecord(by, body) == [by |-> by, body |-> body]

DecodeFailures == {"Invalid JWT token format", "JWT token has expired",
                   "JWT token not yet valid"}

\* the records written while a request was answered resp with a failure.
\* decodeJwtPayload logs a preview and throws; the error reaches errorHandler,
\* which logs body: req.body, and req.body is replaced by the decoded claims
\* only after a successful verification.
FailureLogs(resp) ==
  IF resp.status < 400 THEN {}
  ELSE IF resp.status = 429 THEN {LogRecord("rateLimiter", "none")}
  ELSE IF resp.reason \in {"API key required", "Invalid API key"}
    THEN {LogRecord("authenticateApiKey", "none")}
  ELSE IF resp.req.body = "wrapped" /\ resp.reason \in DecodeFailures
    THEN {LogRecord("decodeJwtPayload", "preview"),
          LogRecord("errorHandler", "raw token")}
  ELSE IF /\ resp.reason = "Validation failed"
          /\ \/ resp.route \in {"update-data", "register"}
             \/ resp.route = "alert" /\ AlertErrors(resp.req.payload) # {}
    THEN {LogRecord("validate", "field errors")}
  ELSE {LogRecord("errorHandler",
                  IF resp.req.body = "wrapped" THEN "decoded claims" ELSE "json body")}

\* --- acknowledge and resolve commands in flight at the same time
NextCommandRace ==
  \/ \E req \in {Wrapped("standard", FreshToken(now), Telemetry("DEV1", 31, NoTemp))} :
       Hits(req.ip) < MaxRaceReqs /\ UpdateData(req) /\ StoreBound(MaxRateSamples, MaxAlerts)
  \/ \E h \in Handlers : \E route \in {"resolve", "acknowledge"} :
       Hits("ip1") < MaxRaceReqs /\ BeginCommand(h, route, Command("standard", 1))
  \/ \E h \in Handlers : FinishCommand(h)
  \/ Tick(StrictWindow, MaxRaceElapsed)

SpecCommandRace == Init /\ [][NextCommandRace]_vars

\* --- submissions whose dedup queries and alert inserts interleave
DedupReqs(t) ==
  {Wrapped("standard", FreshToken(t), Telemetry("DEV1", 31, temp)) : temp \in {NoTemp, 70}}

NextDedupRace ==
  \/ \E h \in Handlers : \E req \in DedupReqs(now) :
       Hits(req.ip) < MaxDedupReqs /\ ArriveUpdateData(h, req)
  \/ \E h \in Handlers : UpsertMatch(h)
  \/ \E h \in Handlers : UpsertCommit(h)
  \/ \E h \in Handlers : SaveSample(h)
  \/ \E h \in Handlers : RuleQuery(h)
  \/ \E h \in Handlers : RuleInsert(h) /\ Len(alerts') <= MaxDedupAlerts
  \/ Tick(DeviceWindow, MaxRaceElapsed)

SpecDedupRace == Init /\ [][NextDedupRace]_vars

\* ------------------------------------------------------------ properties
\* facts about the last request and its answer
Answered(routes) == last.route \in routes
Accepted == last.status \in {200, 201}
CarriedToken == last.req.body = "wrapped"
SignedToken == CarriedToken /\ last.req.tok.form = "ok" /\ last.req.tok.sig
\* the request got past the rate limiters and the API key check
ReachedDecode ==
  /\ Answered({"update-data", "alert"})
  /\ last.status # 429
  /\ last.req.apiKey \in {"standard", "master"}

\* C1: a token older than 300 seconds is never accepted, whatever its own
\* exp claim says: a request carrying one is answered with an error.
C1_TokenLifetime ==
  (Answered({"update-data", "alert"}) /\ CarriedToken
     /\ Has(last.req.tok.iat) /\ last.at > last.req.tok.iat + 300)
  => ~Accepted

\* C1 witness: a correctly signed token with exp an hour ahead, issued 301
\* seconds ago, was rejected as expired.
C1_Witness ==
  /\ ReachedDecode /\ SignedToken
  /\ last.req.tok.iat = last.at - 301
  /\ last.req.tok.exp = last.at + 3600
  /\ last.req.tok.nbf = Absent
  /\ last.status = 401
  /\ last.reason = "JWT token has expired"

\* C2 (as claimed): an accepted token-carrying request has
\* issuedAt <= now < expiresAt at verification time.
C2_IssuedNotInFuture ==
  (Answered({"update-data", "alert"}) /\ CarriedToken /\ Accepted)
  => /\ Has(last.req.tok.iat)
     /\ last.req.tok.iat <= last.at
     /\ (Has(last.req.tok.exp) => last.at < last.req.tok.exp)

\* C3 (as claimed): every accepted ingestion or alert-creation request
\* carried a token; a plain JSON body is never accepted.
C3_OnlyVerifiedTokensWrite ==
  (Answered({"update-data", "alert"}) /\ Accepted) => CarriedToken

WindowHits(l, key) ==
  IF rl[l][key].resetTime <= now THEN 0 ELSE rl[l][key].totalHits

\* this step answers a request on one of the routes
RequestStep(routes) == now' = now /\ last'.route \in routes

\* C5 (as claimed): while the ingestion window of the request's admission key
\* holds fewer than 60 requests an ingestion request is admitted, and once it
\* holds 60 the next one is rejected with 429 and a retry-after of at most 60.
C5_SixtyPerWindow ==
  [][RequestStep({"update-data"}) =>
       LET h == WindowHits("device", KeyGenerator(last'.req))
       IN /\ h < 60 => last'.status # 429
          /\ h >= 60 => (last'.status = 429 /\ last'.retryAfter <= 60)]_vars

\* C6 (as claimed): an ingestion request that names an identity is counted
\* under that identity and under no other key of the ingestion limiter.
C6_KeyIsIdentity ==
  [][(RequestStep({"update-data"}) /\ last'.req.payload.deviceId # NoId
        /\ last'.limiter # "general") =>
       \A k \in Keys \ {<<"device", last'.req.payload.deviceId>>} :
         rl'["device"][k] = rl["device"][k]]_vars

\* C7: a request rejected by rate governance is answered 429 with a
\* retry-after duration and writes no identity, sample or alert.
C7_RejectedHasNoEffect ==
  [][(RequestStep({"update-data"}) /\ last'.status = 429) =>
       /\ last'.retryAfter > 0
       /\ devices' = devices /\ samples' = samples /\ alerts' = alerts]_vars

\* C7 witness: a submission with a valid key, token and payload was rejected
\* by the ingestion limiter while the store already held data.
C7_Witness ==
  /\ last.route = "update-data" /\ last.status = 429 /\ last.limiter = "device"
  /\ last.retryAfter = 60
  /\ last.req.apiKey = "standard"
  /\ Len(samples) = 1 /\ Len(alerts) = 1
  /\ devices[last.req.payload.deviceId].lastSeen < last.at

\* C8 (as claimed): an ingestion request is rejected with 429 only when its
\* own ingestion window is exhausted, and it leaves the catch-all counters
\* alone.
C8_IndependentWindows ==
  [][RequestStep({"update-data"}) =>
       /\ last'.status = 429 => WindowHits("device", KeyGenerator(last'.req)) >= 60
       /\ rl'["general"] = rl["general"]]_vars

RuleTypes == {"low_battery", "temperature"}

\* C10: an accepted submission stores its sample and raises a new alert of
\* rule type T for the sample's identity X exactly when T's condition holds
\* for the sample and no unresolved alert of (X, T) raised at most T's dedup
\* window ago (low battery 1800 s, temperature 900 s) exists; it raises at
\* most one alert per rule type, stamps it with the current time, reports the
\* number raised and leaves the alerts that existed as they were.
C10_RaisedExactlyWhenNotSuppressed ==
  [][(RequestStep({"update-data"}) /\ last'.status = 200) =>
       LET s == samples'[Len(samples')]
           X == s.deviceId
           new == SubSeq(alerts', Len(alerts) + 1, Len(alerts'))
           Holds(T) == IF T = "low_battery"
                       THEN LowBatteryCondition(devices'[X], s)
                       ELSE TemperatureCondition(s)
           Window(T) == IF T = "low_battery" THEN 1800 ELSE 900
           Suppressed(T) == \E i \in 1..Len(alerts) :
                              /\ alerts[i].deviceId = X
                              /\ alerts[i].alertType = T
                              /\ ~alerts[i].isResolved
                              /\ now - alerts[i].timestamp <= Window(T)
           Raised(T) == {i \in 1..Len(new) : new[i].alertType = T}
       IN /\ Len(samples') = Len(samples) + 1
          /\ s.timestamp = now
          /\ Len(alerts') >= Len(alerts)
          /\ SubSeq(alerts', 1, Len(alerts)) = alerts
          /\ \A i \in 1..Len(new) :
               /\ new[i].deviceId = X
               /\ new[i].alertType \in RuleTypes
               /\ new[i].timestamp = now
               /\ ~new[i].isResolved
          /\ \A T \in RuleTypes :
               Cardinality(Raised(T)) = IF Holds(T) /\ ~Suppressed(T) THEN 1 ELSE 0
          /\ last'.alertsCreated = Len(new)]_vars

\* C10 witness: three low-battery samples of DEV1 at t0, t0 + 5 min and
\* t0 + 31 min were accepted; the first and the third raised an alert, the
\* second was suppressed, and no alert was resolved.
C10_Witness ==
  /\ last.route = "update-data" /\ last.status = 200 /\ last.alertsCreated = 1
  /\ Len(samples) = 3
  /\ \A i \in 1..3 : samples[i].deviceId = "DEV1" /\ samples[i].batteryVoltage = 31
                        /\ samples[i].temperature = NoTemp
  /\ samples[1].timestamp = T0
  /\ samples[2].timestamp = T0 + 300
  /\ samples[3].timestamp = T0 + 1860
  /\ Len(alerts) = 2
  /\ \A i \in 1..2 : alerts[i].deviceId = "DEV1" /\ alerts[i].alertType = "low_battery"
                        /\ ~alerts[i].isResolved
  /\ alerts[1].timestamp = T0
  /\ alerts[2].timestamp = T0 + 1860

\* C11: a submission whose low battery condition meets an unresolved alert of
\* the same identity raised at most 1800 s ago, acknowledged or not, raises no
\* low battery alert, and a submission that reports alertsCreated = 0 leaves
\* every alert as it was; a successful acknowledge changes only acknowledgedAt
\* and gives the alert the status acknowledged; a triggering submission that
\* finds only alerts raised more than 1800 s ago raises a new alert and leaves
\* the existing alerts, their acknowledgedAt and status included, as they were.
C11_SuppressedAcknowledgedRaised ==
  [][
      /\ (RequestStep({"update-data"}) /\ last'.status = 200) =>
          LET s == samples'[Len(samples')]
              X == s.deviceId
              triggers == LowBatteryCondition(devices'[X], s)
              old == {i \in 1..Len(alerts) :
                        /\ alerts[i].deviceId = X
                        /\ alerts[i].alertType = "low_battery"
                        /\ ~alerts[i].isResolved}
              inWindow == {i \in old : now - alerts[i].timestamp <= 1800}
              raised == {i \in Len(alerts) + 1..Len(alerts') :
                           alerts'[i].alertType = "low_battery"}
          IN /\ (triggers /\ inWindow # {}) => raised = {}
             /\ (triggers /\ inWindow = {}) => Cardinality(raised) = 1
             /\ last'.alertsCreated = Len(alerts') - Len(alerts)
             /\ last'.alertsCreated = 0 => alerts' = alerts
             /\ SubSeq(alerts', 1, Len(alerts)) = alerts
      /\ (RequestStep({"acknowledge"}) /\ last'.status = 200) =>
          LET id == last'.req.alertId
          IN /\ id \in 1..Len(alerts)
             /\ Status(alerts[id]) = "open"
             /\ Status(alerts'[id]) = "acknowledged"
             /\ alerts' = [alerts EXCEPT ![id].acknowledgedAt = now]]_vars

\* C11 witness: a low battery sample at t0 raised an alert, the sample at
\* t0 + 10 min was suppressed, the alert was acknowledged, and the sample at
\* t0 + 40 min raised a second alert while the first one is still acknowledged.
C11_Witness ==
  /\ last.route = "update-data" /\ last.status = 200 /\ last.alertsCreated = 1
  /\ Len(samples) = 3
  /\ samples[1].timestamp = T0
  /\ samples[2].timestamp = T0 + 600
  /\ samples[3].timestamp = T0 + 2400
  /\ \A i \in 1..3 : samples[i].deviceId = "DEV1" /\ samples[i].temperature = NoTemp
  /\ Len(alerts) = 2
  /\ \A i \in 1..2 : alerts[i].deviceId = "DEV1" /\ alerts[i].alertType = "low_battery"
  /\ alerts[1].timestamp = T0
  /\ alerts[1].acknowledgedAt = T0 + 600
  /\ Status(alerts[1]) = "acknowledged"
  /\ alerts[2].timestamp = T0 + 2400
  /\ Status(alerts[2]) = "open"

\* C12 (as claimed): an accepted sample with power reading 3.1 for an identity
\* with the low battery rule enabled, threshold 20 and no low battery alert
\* so far raises exactly one low battery alert, of severity high and status
\* open.
C12_LowPowerSeverity ==
  [][(RequestStep({"update-data"}) /\ last'.status = 200) =>
       LET s == samples'[Len(samples')]
           X == s.deviceId
           before == {i \in 1..Len(alerts) :
                        alerts[i].deviceId = X /\ alerts[i].alertType = "low_battery"}
           raised == {i \in Len(alerts) + 1..Len(alerts') :
                        alerts'[i].alertType = "low_battery"}
       IN (/\ s.batteryVoltage = 31
           /\ devices'[X].lowBatteryEnabled
           /\ devices'[X].batteryThreshold = 20
           /\ before = {})
          => /\ Cardinality(raised) = 1
             /\ \A i \in raised : /\ alerts'[i].deviceId = X
                                   /\ alerts'[i].severity = "high"
                                   /\ Status(alerts'[i]) = "open"]_vars

\* C13: an acknowledge or resolve command that finds its alert succeeds or is
\* rejected by the alert's status alone.  Acknowledge succeeds only from open
\* and then sets acknowledgedAt and nothing else; from acknowledged and from
\* resolved it is answered 400 and changes nothing.  Resolve succeeds from
\* open and from acknowledged, sets the resolved flag and resolvedAt, keeps
\* acknowledgedAt and gives the status resolved; from resolved it is answered
\* 400 and changes nothing.
C13_LifecycleTransitions ==
  [][
      /\ (RequestStep({"acknowledge"}) /\ last'.status \notin {429, 401, 404}) =>
           LET id == last'.req.alertId
           IN IF Status(alerts[id]) = "open"
              THEN /\ last'.status = 200
                   /\ alerts' = [alerts EXCEPT ![id].acknowledgedAt = now]
                   /\ Status(alerts'[id]) = "acknowledged"
              ELSE /\ last'.status = 400
                   /\ alerts' = alerts
      /\ (RequestStep({"resolve"}) /\ last'.status \notin {429, 401, 404}) =>
           LET id == last'.req.alertId
           IN IF Status(alerts[id]) \in {"open", "acknowledged"}
              THEN /\ last'.status = 200
                   /\ alerts' = [alerts EXCEPT ![id].isResolved = TRUE,
                                               ![id].resolvedAt = now]
                   /\ Status(alerts'[id]) = "resolved"
              ELSE /\ last'.status = 400
                   /\ alerts' = alerts
  ]_vars

\* C13 witness: alert 1 was acknowledged and then resolved and reads resolved;
\* alert 2 was resolved and the acknowledge that followed was answered 400.
C13_Witness ==
  /\ Len(alerts) >= 2
  /\ alerts[1].acknowledgedAt # Absent /\ alerts[1].resolvedAt # Absent
  /\ Status(alerts[1]) = "resolved"
  /\ alerts[2].isResolved /\ alerts[2].acknowledgedAt = Absent
  /\ last.route = "acknowledge" /\ last.req.alertId = 2
  /\ last.status = 400 /\ last.reason = "Cannot acknowledge a resolved alert"

\* the order of the derived statuses
StatusRank(a) ==
  CASE Status(a) = "open" -> 0
    [] Status(a) = "acknowledged" -> 1
    [] Status(a) = "resolved" -> 2

C15_ArchivedIsHidden ==
  [][(RequestStep({"archive"}) /\ last'.status = 200) =>
       LET id == last'.req.alertId
       IN /\ id \in 1..Len(alerts')
          /\ alerts'[id].acknowledgedAt = alerts[id].acknowledgedAt
          /\ alerts'[id].resolvedAt = alerts[id].resolvedAt
          /\ Status(alerts'[id]) = Status(alerts[id])
          /\ id \notin ListedAlerts(alerts')
          /\ GetAlertById(alerts', id) = 404
          /\ NotFound(alerts', id)]_vars

\* C16 (as claimed): an archive command from a caller without the master key
\* is answered 403 and changes no alert.
C16_NonMasterIs403 ==
  [][(RequestStep({"archive"}) /\ last'.req.apiKey # "master") =>
       /\ last'.status = 403
       /\ alerts' = alerts]_vars

\* C16 (amended): an archive command from a caller without the master key
\* changes no alert and leaves the listing as it was; it is answered 429 when
\* a rate limit is exceeded, else 401 when the API key is missing or invalid,
\* else 403; an archive command answered 200 carried the master key.
C16_ArchiveNeedsMasterKey ==
  [][RequestStep({"archive"}) =>
       /\ last'.req.apiKey # "master" =>
            /\ alerts' = alerts
            /\ ListedAlerts(alerts') = ListedAlerts(alerts)
            /\ last'.status = IF last'.limiter # "" THEN 429
                               ELSE IF last'.req.apiKey \in {"none", "invalid"} THEN 401
                               ELSE 403
       /\ last'.status = 200 => last'.req.apiKey = "master"]_vars

\* C16 witness: an archive command with a valid standard key, naming a stored
\* alert, was answered 403 and the alert is still listed.
C16_Witness ==
  /\ last.route = "archive" /\ last.status = 403
  /\ last.req.apiKey = "standard"
  /\ last.req.alertId \in ListedAlerts(alerts)

\* C17 (as claimed): the stored percentage of an accepted sample is the
\* submitted one when the sample carries one (0 included), and otherwise the
\* linear map of the voltage, (v - 3.0) / (4.2 - 3.0) * 100 clamped to 0..100.
C17_PercentageNormalized ==
  [][(RequestStep({"update-data"}) /\ last'.status = 200) =>
       LET p == last'.req.payload
           s == samples'[Len(samples')]
           linear == ((p.batteryVoltage * 10 - 30 * VoltScale) * 100 * PctScale)
                       \div (12 * VoltScale)
       IN s.batteryPercentage =
            IF p.batteryPercentage # Absent THEN p.batteryPercentage * PctScale
            ELSE IF linear < 0 THEN 0
            ELSE IF linear > 100 * PctScale THEN 100 * PctScale
            ELSE linear]_vars

\* C18 (as claimed): every channel of an accepted submission that the server
\* does not recognise is in the stored sample.
C18_UnknownChannelsStored ==
  [][(RequestStep({"update-data"}) /\ last'.status = 200) =>
       samples'[Len(samples')].extra = last'.req.payload.extra]_vars

\* C18 (amended): channels the server does not recognise do not decide whether
\* a verified submission is accepted, and none of them is in the stored
\* sample.
C18_UnknownChannelsDropped ==
  [][(RequestStep({"update-data"}) /\ last'.status \in {200, 400}
        /\ last'.reason \in {"Validation failed", "Location data updated successfully"}) =>
       LET p == last'.req.payload
       IN /\ last'.status = 200 <=> LocationDataErrors([p EXCEPT !.extra = {}]) = {}
          /\ last'.status = 200 => samples'[Len(samples')].extra = {}]_vars

\* C18 witness: a submission with the unknown channel "pressure" was accepted
\* and the stored sample has no such channel.
C18_Witness ==
  /\ last.route = "update-data" /\ last.status = 200 /\ last.at = now
  /\ last.req.payload.extra = {"pressure"}
  /\ Len(samples) >= 1
  /\ samples[Len(samples)].extra = {}
  /\ samples[Len(samples)].timestamp = last.at

\* C19 (as claimed): a verified submission is rejected with 400 exactly when
\* the identity key or the power reading is absent; with both it is accepted.
C19_OnlyIdentityAndPower ==
  (/\ last.route = "update-data" /\ ReachedDecode
   /\ last.reason \in {"Validation failed", "Location data updated successfully"})
  => (last.status = 400 <=>
        (last.req.payload.deviceId = NoId \/ last.req.payload.batteryVoltage = Absent))

\* C19 (amended): a verified submission is rejected with 400 "Validation
\* failed" and writes nothing exactly when the identity key, the position
\* (latitude and longitude) or the battery voltage is absent; one that
\* carries these and nothing else is accepted and its sample is stored.
C19_MandatoryFields ==
  [][(RequestStep({"update-data"}) /\ last'.status \in {200, 400}
        /\ last'.reason \in {"Validation failed", "Location data updated successfully"}) =>
       LET p == last'.req.payload
           missing == p.deviceId = NoId \/ ~p.hasPos \/ p.batteryVoltage = Absent
       IN IF missing
          THEN /\ last'.status = 400
               /\ devices' = devices /\ samples' = samples /\ alerts' = alerts
          ELSE /\ last'.status = 200
               /\ Len(samples') = Len(samples) + 1
               /\ samples'[Len(samples')].deviceId = p.deviceId
               /\ samples'[Len(samples')].batteryVoltage = p.batteryVoltage]_vars

\* C19 witness: a verified submission with an identity key and a battery
\* voltage but no position was answered 400 "Validation failed".
C19_Witness ==
  /\ last.route = "update-data" /\ ReachedDecode
  /\ last.req.payload.deviceId = "DEV1"
  /\ last.req.payload.batteryVoltage = 36
  /\ ~last.req.payload.hasPos
  /\ last.req.payload.extra = {}
  /\ last.status = 400 /\ last.reason = "Validation failed"

C21_IdentityMismatchIs403 ==
  [][(/\ RequestStep({"update-data"})
      /\ last'.req.credentialDevice # NoId
      /\ last'.req.payload.deviceId # last'.req.credentialDevice) =>
       /\ last'.status = 403
       /\ devices' = devices /\ samples' = samples /\ alerts' = alerts]_vars

\* the alerts of one type that a step stored
StoredBy(type) ==
  {i \in (Len(alerts) + 1)..Len(alerts') : alerts'[i].alertType = type}

\* C22 (as claimed): within one accepted sample the environmental rule raises
\* exactly when its condition holds and no unresolved alert of its own type is
\* inside its window, whatever the low-power rule did: raise, suppression or
\* failed write.
C22_RulesIndependent ==
  [][(/\ RequestStep({"update-data"}) /\ last'.status = 200
      /\ Len(samples') = Len(samples) + 1
      /\ last'.req.storeFault \in {"none", "low_battery save"}) =>
       LET sample == samples'[Len(samples')]
       IN Cardinality(StoredBy("temperature")) =
            IF /\ TemperatureCondition(sample)
               /\ ~RecentAlert(alerts, sample.deviceId, "temperature",
                               TemperatureDedup, now)
            THEN 1 ELSE 0]_vars

\* C30: a failure of the alert store while the rules are evaluated does not
\* fail the submission: the response is 200, the sample is stored, the
\* identity is updated, the alerts stored before are untouched and
\* alertsCreated is the number of alerts the submission stored.
C30_AlertFailureIsSwallowed ==
  [][(/\ RequestStep({"update-data"})
      /\ last'.req.storeFault # "none"
      /\ last'.status # 429) =>
       LET id == last'.req.payload.deviceId
       IN /\ last'.status = 200
          /\ Len(samples') = Len(samples) + 1
          /\ samples'[Len(samples')].deviceId = id
          /\ devices'[id].exists /\ devices'[id].lastSeen = now
          /\ Len(alerts') >= Len(alerts)
          /\ SubSeq(alerts', 1, Len(alerts)) = alerts
          /\ last'.alertsCreated = Len(alerts') - Len(alerts)]_vars

\* C30 witness: the save of the temperature alert failed after the low
\* battery alert was stored; the submission was answered 200 with
\* alertsCreated = 1 and its sample is stored.
C30_Witness ==
  /\ last.route = "update-data" /\ last.status = 200 /\ last.at = now
  /\ last.req.storeFault = "temperature save"
  /\ last.req.payload.temperature = 70
  /\ last.alertsCreated = 1
  /\ Len(samples) = 1 /\ Len(alerts) = 1
  /\ alerts[1].alertType = "low_battery"
  /\ devices["DEV1"].lastSeen = last.at

\* C23 (as claimed): an acknowledge or resolve command whose id names no
\* stored alert is answered 404 and changes no alert.
C23_UnknownIs404 ==
  [][(/\ RequestStep({"acknowledge", "resolve"})
      /\ last'.status \notin {429, 401}
      /\ last'.req.alertId \notin 1..Len(alerts)) =>
       (last'.status = 404 /\ alerts' = alerts)]_vars

\* C23 (amended): an acknowledge or resolve command that passed the rate
\* limits and the API key check is answered 400 "Invalid ID format" when its
\* id is not a well-formed object id, 404 when the id is well formed and
\* names no stored alert, and 400 with the message of the violated transition
\* when the alert is resolved (both commands) or already acknowledged
\* (acknowledge); in all these cases no alert is changed.
C23_CommandErrors ==
  [][(/\ RequestStep({"acknowledge", "resolve"})
      /\ last'.status \notin {429, 401}) =>
       LET id == last'.req.alertId
           ack == last'.route = "acknowledge"
           answer == <<last'.status, last'.reason>>
       IN IF id = MalformedId
          THEN answer = <<400, "Invalid ID format">> /\ alerts' = alerts
          ELSE IF id \notin 1..Len(alerts)
          THEN answer = <<404, "Alert not found">> /\ alerts' = alerts
          ELSE IF Status(alerts[id]) = "resolved"
          THEN /\ answer = <<400, IF ack THEN "Cannot acknowledge a resolved alert"
                                  ELSE "Alert is already resolved">>
               /\ alerts' = alerts
          ELSE IF ack /\ Status(alerts[id]) = "acknowledged"
          THEN answer = <<400, "Alert is already acknowledged">> /\ alerts' = alerts
          ELSE last'.status = 200]_vars

\* C23 witness: alert 1 is resolved and a second resolve of it was answered
\* 400 "Alert is already resolved"; it kept the time of the first resolve.
C23_Witness ==
  /\ Len(alerts) >= 1
  /\ alerts[1].isResolved /\ alerts[1].resolvedAt < now
  /\ last.route = "resolve" /\ last.req.alertId = 1 /\ last.at = now
  /\ last.status = 400 /\ last.reason = "Alert is already resolved"

\* C24 (as claimed): on every failure path no log record holds the raw token
\* with its signature.
C24_NoRawTokenLogged ==
  last.status >= 400 => \A r \in FailureLogs(last) : r.body # "raw token"

\* C25 (as claimed): with acknowledge and resolve commands in flight together
\* no command writes to an alert that is already resolved (so at most one
\* resolve succeeds, no acknowledge succeeds after a resolve was written and
\* resolvedAt is not overwritten), an acknowledgedAt that is set is not
\* written again, and no resolved alert has acknowledgedAt later than
\* resolvedAt.
C25_LegalityOnStoredState ==
  [][\A id \in 1..Len(alerts) :
       /\ alerts[id].isResolved => alerts'[id] = alerts[id]
       /\ alerts[id].acknowledgedAt # Absent =>
            alerts'[id].acknowledgedAt = alerts[id].acknowledgedAt
       /\ (alerts'[id].isResolved /\ alerts'[id].acknowledgedAt # Absent) =>
            alerts'[id].acknowledgedAt <= alerts'[id].resolvedAt]_vars

\* the alerts of (id, type) raised within one dedup window from alert i on
SameWindow(i) ==
  {j \in 1..Len(alerts') :
     /\ alerts'[j].deviceId = alerts'[i].deviceId
     /\ alerts'[j].alertType = alerts'[i].alertType
     /\ alerts'[j].timestamp >= alerts'[i].timestamp
     /\ alerts'[j].timestamp <= alerts'[i].timestamp +
          (IF alerts'[i].alertType = "low_battery" THEN LowBatteryDedup
           ELSE TemperatureDedup)}

\* C26: with the dedup query and the insert of concurrent submissions
\* interleaved, a submission whose dedup query runs while an unresolved alert
\* of its identity and rule type is stored inside the window raises none for
\* that rule; an insert stores one alert of the rule whose query the handler
\* ran; and the alerts of one identity and type inside one window are never
\* more than the submissions that can be in flight together.
C26_DedupRaceBounded ==
  [][
     /\ \A h \in Handlers : \A type \in {"low_battery", "temperature"} :
          LET id == pending[h].req.payload.deviceId
              window == IF type = "low_battery" THEN LowBatteryDedup ELSE TemperatureDedup
          IN /\ (/\ pending[h].pc = IF type = "low_battery" THEN "low_battery query"
                                     ELSE "temperature query"
                 /\ pending'[h] # pending[h]
                 /\ RecentAlert(alerts, id, type, window, now)) =>
                  /\ pending'[h].pc \notin {"low_battery insert", "temperature insert"}
                  /\ (type = "low_battery" => pending'[h].pc = "temperature query")
                  /\ pending'[h].created = IF pending'[h].pc = "idle" THEN 0
                                           ELSE pending[h].created
                  /\ (pending'[h].pc = "idle" => last'.alertsCreated = pending[h].created)
                  /\ alerts' = alerts
             /\ (/\ pending[h].pc = IF type = "low_battery" THEN "low_battery insert"
                                     ELSE "temperature insert"
                 /\ pending'[h] # pending[h]) =>
                  /\ Len(alerts') = Len(alerts) + 1
                  /\ SubSeq(alerts', 1, Len(alerts)) = alerts
                  /\ alerts'[Len(alerts')].alertType = type
                  /\ alerts'[Len(alerts')].deviceId = id
     /\ \A i \in 1..Len(alerts') : Cardinality(SameWindow(i)) <= Cardinality(Handlers)
    ]_vars

\* C26 witness: two submissions ran their low battery dedup query before
\* either insert and both alerts are stored, and a third submission, whose
\* query ran afterwards, was answered with alertsCreated = 0.
C26_Witness ==
  /\ Len(alerts) = 2 /\ Len(samples) = 3
  /\ \A i \in 1..2 : alerts[i].alertType = "low_battery" /\ ~alerts[i].isResolved
  /\ \A h \in Handlers : pending[h].pc = "idle"
  /\ last.route = "update-data" /\ last.status = 200 /\ last.alertsCreated = 0
  /\ last.req.payload.temperature = NoTemp

\* C27: in every reachable alert store the resolved flag of an alert is set
\* exactly when its resolvedAt is set, so the status derived from the flag
\* and the status derived from the timestamps agree.
C27_FlagIffResolvedAt ==
  \A i \in 1..Len(alerts) :
    LET a == alerts[i]
        byTimestamps == IF a.resolvedAt # Absent THEN "resolved"
                        ELSE IF a.acknowledgedAt # Absent THEN "acknowledged"
                        ELSE "open"
    IN /\ a.isResolved <=> a.resolvedAt # Absent
       /\ Status(a) = byTimestamps

\* C27 witness: a rule-raised alert that was acknowledged and resolved, next
\* to an alert that is still open.
C27_Witness ==
  /\ Len(alerts) >= 2
  /\ alerts[1].isResolved /\ alerts[1].resolvedAt # Absent
  /\ alerts[1].acknowledgedAt # Absent
  /\ ~alerts[2].isResolved /\ alerts[2].resolvedAt = Absent
  /\ last.route = "resolve" /\ last.status = 200

\* C28: for every filter and every reachable alert store the statistics
\* counts partition the matched non-archived alerts by derived status: each
\* count is the number of matched alerts with that status, so
\* open + acknowledged + resolved = total.
C28_StatsPartition ==
  \A deviceId \in {NoId} \cup DeviceIds, startDate \in {Absent, T0 + StrictWindow} :
    LET m == StatsMatch(alerts, deviceId, startDate, Absent)
        st == GetAlertStats(alerts, deviceId, startDate, Absent)
        n(status) == Cardinality({i \in m : Status(alerts[i]) = status})
    IN /\ st.open = n("open")
       /\ st.acknowledged = n("acknowledged")
       /\ st.resolved = n("resolved")
       /\ st.open + st.acknowledged + st.resolved = st.total

\* C29: a submission or an alert-creation request that is answered with an
\* error status (4xx or 5xx) leaves the store unchanged: no identity record
\* is created, no lastSeen is bumped and no sample or alert is stored.
C29_ErrorLeavesStoreUnchanged ==
  [][(/\ RequestStep({"update-data", "alert"})
      /\ last'.status >= 400) =>
       UNCHANGED <<devices, samples, alerts>>]_vars

====
